---- MODULE Spec2Model ----
(***************************************************************************)
(* Verification model of wasm-rpc-stubgen:                                 *)
(*   - the package graph resolver (visit / get_unresolved_packages),       *)
(*   - the loading of the deps directory into the dependency map,          *)
(*   - the dependency merge engine (add_stub_dependency),                  *)
(*   - the self-import stripping of dependency files,                      *)
(*   - the stub synthesis (collect_stub_interfaces / generate_stub_wit),   *)
(*   - compose and build.                                                  *)
(***************************************************************************)
EXTENDS Integers, Sequences, FiniteSets, TLC

(***************************************************************************)
(* Bounds of the model.                                                    *)
(***************************************************************************)
\* number of statements in a dependency file
MaxStmts == 3
\* number of dependency directories under the stub WIT root
MaxDepDirs == 2
\* number of add_stub_dependency calls in a row
MaxRuns == 2
\* number of distinct package names that can occur in the deps directory
MaxPkgs == 3
\* total number of foreign_deps references over the root and all packages
MaxEdges == 4

VARIABLES
    \* ---- package graph resolver (main.rs) ----
    deps,          \* BTreeMap<PackageName, UnresolvedPackage>: name -> foreign_deps
    root,          \* the root UnresolvedPackage: [name, foreign_deps]
    order,         \* IndexSet<PackageName>: the finished order
    visiting,      \* HashSet<&PackageName>
    stack,         \* the call stack of visit: frames [pkg, entered, rest, cur]
    todo,          \* packages the top-level loop of get_unresolved_packages still visits
    status,        \* "running" | "ok" | "err_cycle" | "err_missing" | "panic"
    ordered_deps,  \* Vec<UnresolvedPackage> returned on success (names)
    missing,       \* the package named by the "failed to find package" error
    \* ---- dependency merge engine (lib.rs) ----
    stub,          \* the stub WIT root: [pkg, world, source_deps]
    dest,          \* the destination package: [pkg, worlds]
    args,          \* AddStubDependencyArgs: [overwrite, update_cargo_toml]
    destDeps,      \* files under <dest_wit_root>/deps: <<dir, file>> -> content
    cargo,         \* the Cargo.toml next to the destination: [kind, deps]
    runs,          \* number of add_stub_dependency calls made
    last,          \* record of the last add_stub_dependency call
    prev,          \* record of the call before the last
    \* ---- self-import stripping of one dependency file (lib.rs) ----
    dependency_wit, \* the statements of the file at dependency_wit_path
    strip_dest,    \* the destination package the file is merged into
    stripped_wit,  \* the content planned for the file
    stripped,      \* replace_self_imports_from_dependencies has run
    \* ---- stub synthesis (main.rs) ----
    gen_world,     \* the selected World: [name, exports]
    target_file,   \* the file at `target`: <<>> while it does not exist
    prev_wit,      \* the file at `target` before the last run
    gen_status,    \* result of the last generate_stub_wit: "none" | "ok" | "err"
    gen_runs,      \* number of generate_stub_wit calls made
    \* ---- loading of the deps directory (main.rs) ----
    dep_entries,   \* the entries of fs::read_dir(deps_path), in the order read
    load_pos,      \* number of entries the loop has parsed and inserted
    loaded,        \* the BTreeMap `deps`: PackageName -> directory
    load_status,   \* "reading" | "loaded" | "err" | "panic"
    \* ---- compose (lib.rs) ----
    stub_wasm,     \* args.stub_wasm: a sequence of paths
    compose_pos,   \* number of stub files the loop has read
    dependencies,  \* config.dependencies: instance name -> path
    compose_status, \* "reading" | "composing" | "ok" | "err"
    \* ---- build (lib.rs) ----
    build_args,    \* BuildArgs: [always_inline_types]
    build_tmp,     \* what the temporary target_root holds: [wit, wasm]
    build_pc,      \* the next step of build
    build_status,  \* "running" | "ok" | "err"
    out_wasm,      \* the file at args.dest_wasm
    out_wit,       \* the files under args.dest_wit_root
    out_wasm0,     \* the file at args.dest_wasm before the call
    out_wit0       \* the files under args.dest_wit_root before the call

resVars == <<deps, root, order, visiting, stack, todo, status, ordered_deps,
            missing>>

mergeVars == <<stub, dest, args, destDeps, cargo, runs, last, prev>>

stripVars == <<dependency_wit, strip_dest, stripped_wit, stripped>>

genVars == <<gen_world, target_file, prev_wit, gen_status, gen_runs>>

loadVars == <<dep_entries, load_pos, loaded, load_status>>

composeVars == <<stub_wasm, compose_pos, dependencies, compose_status>>

toolVars == <<dep_entries, load_pos, loaded, load_status,
              stub_wasm, compose_pos, dependencies, compose_status,
              build_args, build_tmp, build_pc, build_status,
          out_wasm, out_wit, out_wasm0, out_wit0>>

buildVars == <<build_args, build_tmp, build_pc, build_status,
          out_wasm, out_wit, out_wasm0, out_wit0>>

vars == <<deps, root, order, visiting, stack, todo, status, ordered_deps, missing,
          stub, dest, args, destDeps, cargo, runs, last, prev,
          dependency_wit, strip_dest, stripped_wit, stripped,
          gen_world, target_file, prev_wit, gen_status, gen_runs,
          dep_entries, load_pos, loaded, load_status,
          stub_wasm, compose_pos, dependencies, compose_status,
          build_args, build_tmp, build_pc, build_status,
          out_wasm, out_wit, out_wasm0, out_wit0>>

(***************************************************************************)
(* Generic helpers.                                                        *)
(***************************************************************************)
Names == 1 .. MaxPkgs

NoDep == 0

Range(s) == {s[i] : i \in 1 .. Len(s)}

Contains(s, x) == \E i \in 1 .. Len(s) : s[i] = x

NoDuplicates(s) == \A i, j \in 1 .. Len(s) : s[i] = s[j] => i = j

RECURSIVE SetToSeq(_)
\* the elements of a set in a fixed order
SetToSeq(S) ==
    IF S = {} THEN <<>>
    ELSE LET x == CHOOSE y \in S : TRUE IN <<x>> \o SetToSeq(S \ {x})

RECURSIVE SmallSubsets(_, _)
\* the subsets of S with at most k elements
SmallSubsets(S, k) ==
    IF k = 0 THEN {{}}
    ELSE LET smaller == SmallSubsets(S, k - 1)
         IN  smaller \cup {s \cup {e} : s \in smaller, e \in S}

RECURSIVE SortedSeq(_)
\* the elements of a set of numbers in ascending order (BTreeMap iteration order)
SortedSeq(S) ==
    IF S = {} THEN <<>>
    ELSE LET m == CHOOSE x \in S : \A y \in S : x <= y
         IN  <<m>> \o SortedSeq(S \ {m})

RECURSIVE FilterSeq(_, _)
\* the elements of s that are in S, in the order of s
FilterSeq(s, S) ==
    IF s = <<>> THEN <<>>
    ELSE IF Head(s) \in S THEN <<Head(s)>> \o FilterSeq(Tail(s), S)
         ELSE FilterSeq(Tail(s), S)


(***************************************************************************)
(* Dependency merge engine: names, documents and the stub's dependency     *)
(* directories.  Names and file contents are sequences of tokens, so that  *)
(* suffixes, prefixes and textual patterns are computed, not assumed.      *)
(***************************************************************************)
\* wit_parser::PackageName: namespace, name and optional version (0: none);
\* `==` on PackageName compares the three fields
PackageName(ns, name, version) ==
    [namespace |-> ns, name |-> name, version |-> version]

\* format!("{}-stub", name)
WithStubSuffix(name) == name \o <<"-stub">>

\* name.strip_suffix("-stub").expect(..): the stub's package name ends in "-stub"
StripStubSuffix(name) == SubSeq(name, 1, Len(name) - 1)

\* format!("{}_{}", namespace, name)
DirName(pkg) == <<pkg.namespace, "_">> \o pkg.name

\* the textual package id `namespace:name`
PackageId(pkg) == <<pkg.namespace, ":">> \o pkg.name

\* generate_stub_wit: `interface stub-{world.name}`
StubInterfaceName(world) == <<"stub-">> \o world

RECURSIVE RemoveAll(_, _)
\* str.replace(tok, "")
RemoveAll(s, tok) ==
    IF s = <<>> THEN <<>>
    ELSE IF Head(s) = tok THEN RemoveAll(Tail(s), tok)
         ELSE <<Head(s)>> \o RemoveAll(Tail(s), tok)

\* internal::find_world_name on a stub with the single interface `name`:
\* <<>> stands for the error "Failed to find world name from the stub"
find_world_name(name) ==
    IF name # <<>> /\ Head(name) = "stub-" THEN RemoveAll(name, "stub-") ELSE <<>>

\* internal::dest_owns_stub_world
dest_owns_stub_world(stub_world_name, destination_wit_root) ==
    stub_world_name \in destination_wit_root.worlds

\* internal::find_if_same_package: TRUE keeps the directory
find_if_same_package(dep_package_name, target_wit) ==
    dep_package_name # target_wit.pkg

\* internal::is_invalid_dependency
is_invalid_dependency(destination_wit_root, dependency_package) ==
    LET self_stub_name == WithStubSuffix(destination_wit_root.pkg.name)
    IN  \/ dependency_package = destination_wit_root.pkg
        \/ /\ dependency_package.namespace = destination_wit_root.pkg.namespace
           /\ dependency_package.name = self_stub_name

(***************************************************************************)
(* internal::replace_self_imports_from_dependencies.  The pattern is the    *)
(* word import, one or more whitespace, the literal self_stub_package, an  *)
(* optional group made of "/" and any run of non-";", then ";".  Every     *)
(* leftmost match is replaced by the empty string.                         *)
(***************************************************************************)
IsSpace(tok) == tok = " "

RECURSIVE SkipSpaces(_, _)
\* the first index from i on that holds no whitespace token
SkipSpaces(s, i) ==
    IF i <= Len(s) /\ IsSpace(s[i]) THEN SkipSpaces(s, i + 1) ELSE i

RECURSIVE NextSemicolon(_, _)
\* the index of the first ";" from i on, 0 when there is none
NextSemicolon(s, i) ==
    IF i > Len(s) THEN 0
    ELSE IF s[i] = ";" THEN i ELSE NextSemicolon(s, i + 1)

LiteralAt(s, i, lit) ==
    /\ i + Len(lit) - 1 <= Len(s)
    /\ \A k \in 1 .. Len(lit) : s[i + k - 1] = lit[k]

\* the last index of the match of the pattern that starts at i, 0 when none does
MatchEnd(s, i, lit) ==
    IF i > Len(s) \/ s[i] # "import" THEN 0
    ELSE LET j == SkipSpaces(s, i + 1)
             k == j + Len(lit)
         IN  IF j = i + 1 \/ ~LiteralAt(s, j, lit) \/ k > Len(s) THEN 0
             ELSE IF s[k] = "/" THEN NextSemicolon(s, k + 1)
             ELSE IF s[k] = ";" THEN k
             ELSE 0

RECURSIVE ReplaceAllFrom(_, _, _)
\* Regex::replace_all(text, "") from position i on
ReplaceAllFrom(s, i, lit) ==
    IF i > Len(s) THEN <<>>
    ELSE LET e == MatchEnd(s, i, lit)
         IN  IF e # 0 THEN ReplaceAllFrom(s, e + 1, lit)
             ELSE <<s[i]>> \o ReplaceAllFrom(s, i + 1, lit)

\* format!("{}:{}-stub", namespace, name)
SelfStubPackage(destination_wit_root) ==
    PackageId(destination_wit_root.pkg) \o <<"-stub">>

replace_self_imports_from_dependencies(read_data, destination_wit_root) ==
    ReplaceAllFrom(read_data, 1, SelfStubPackage(destination_wit_root))

(***************************************************************************)
(* The inputs of the merge: packages, worlds and dependency directories.   *)
(***************************************************************************)
Caller == <<"caller">>

Target == <<"target">>

\* world names; "my-stub-api" holds the text "stub-" after its first character
Worlds == {<<"api">>, <<"my-", "stub-", "api">>, <<"my-", "api">>}

\* an import statement of interface x of the package with the given id
ImportOf(id) == <<"import", " ">> \o id \o <<"/", "x", ";">>

PlainWit(tag) == <<"interface", " ", tag, ";">>

\* a file that imports the stub packages of both possible destinations
LibWit ==
    PlainWit("lib")
      \o ImportOf(<<"ns", ":", "caller", "-stub">>)
      \o ImportOf(<<"ns", ":", "target", "-stub">>)
      \o ImportOf(<<"ns", ":", "caller", "-stub", "-extra">>)

\* the dependency directories a stub WIT root can hold under deps/
DepDirCatalogue == <<
    [dir |-> <<"ns", "_", "caller">>, pkg |-> PackageName("ns", Caller, 0),
     files |-> [f \in {"caller.wit"} |-> PlainWit("caller")]],
    [dir |-> <<"ns", "_", "caller", "-stub">>,
     pkg |-> PackageName("ns", WithStubSuffix(Caller), 0),
     files |-> [f \in {"_stub.wit"} |-> PlainWit("caller-stub")]],
    [dir |-> <<"other", "_", "lib">>, pkg |-> PackageName("other", <<"lib">>, 0),
     files |-> [f \in {"lib.wit", "types.wit"} |->
                   IF f = "lib.wit" THEN LibWit ELSE PlainWit("types")]],
    [dir |-> <<"other", "_", "caller", "-stub">>,
     pkg |-> PackageName("other", WithStubSuffix(Caller), 0),
     files |-> [f \in {"_stub.wit"} |-> PlainWit("other-caller-stub")]],
    [dir |-> <<"ns", "_", "caller", "@1">>, pkg |-> PackageName("ns", Caller, 1),
     files |-> [f \in {"caller.wit"} |-> PlainWit("caller-1")]],
    [dir |-> <<"ns", "_", "target", "-stub">>,
     pkg |-> PackageName("other", <<"shadow">>, 0),
     files |-> [f \in {"_stub.wit"} |-> PlainWit("shadow")]]
>>

DepDirIds == DOMAIN DepDirCatalogue

\* the _stub.wit on disk in the stub WIT root (written by generate or build)
StubMainWit(s) ==
    <<"package", " ">> \o PackageId(s.pkg) \o <<";", "interface", " ">>
      \o StubInterfaceName(s.world) \o <<"import-root-types">>

(***************************************************************************)
(* WitAction and the two operations on it.                                 *)
(***************************************************************************)
CopyDepDir(source_dir) ==
    [kind |-> "CopyDepDir", source_dir |-> source_dir, source_wit |-> <<>>,
     dir_name |-> <<>>, file_name |-> ""]

CopyDepWit(source_wit, dir_name) ==
    [kind |-> "CopyDepWit", source_dir |-> 0, source_wit |-> source_wit,
     dir_name |-> dir_name, file_name |-> "_stub.wit"]

WriteWit(source_wit, dir_name, file_name) ==
    [kind |-> "WriteWit", source_dir |-> 0, source_wit |-> source_wit,
     dir_name |-> dir_name, file_name |-> file_name]

\* the files an action writes under <dest_wit_root>/deps: <<dir, file>> -> content
Writes(action) ==
    IF action.kind = "CopyDepDir"
    THEN LET d == DepDirCatalogue[action.source_dir]
         IN  [p \in {<<d.dir, f>> : f \in DOMAIN d.files} |-> d.files[p[2]]]
    ELSE [p \in {<<action.dir_name, action.file_name>>} |-> action.source_wit]

\* WitAction::get_dep_dir_name
get_dep_dir_name(action) ==
    IF action.kind = "CopyDepDir" THEN DepDirCatalogue[action.source_dir].dir
    ELSE action.dir_name

\* wit::verify_action: FALSE when the target exists with a different content and
\* overwrite is not set
verify_action(action, tree, overwrite) ==
    \/ overwrite
    \/ IF action.kind = "CopyDepDir"
       THEN LET dir == get_dep_dir_name(action)
                existing == {p \in DOMAIN tree : p[1] = dir}
            IN  \/ existing = {}
                \/ /\ existing = DOMAIN Writes(action)
                   /\ \A p \in existing : tree[p] = Writes(action)[p]
       ELSE \A p \in DOMAIN Writes(action) :
                p \in DOMAIN tree => tree[p] = Writes(action)[p]

\* WitAction::perform with a file opened for appending
performAppend(action, tree) ==
    [p \in DOMAIN Writes(action) |->
        IF p \in DOMAIN tree THEN tree[p] \o Writes(action)[p] ELSE Writes(action)[p]]
      @@ tree

\* WitAction::perform: the written files replace the existing ones
perform(action, tree) == Writes(action) @@ tree

RECURSIVE PerformAll(_, _)
\* `for action in &actions { action.perform(&args.dest_wit_root)?; }`
PerformAll(actions, tree) ==
    IF actions = <<>> THEN tree
    ELSE PerformAll(Tail(actions), perform(Head(actions), tree))

\* the merge engine is not in use
MergeIdle ==
    /\ stub = <<>>
    /\ dest = <<>>
    /\ args = <<>>
    /\ destDeps = <<>>
    /\ cargo = <<>>
    /\ runs = 0
    /\ last = <<>>
    /\ prev = <<>>

\* the stripping of a dependency file is not in use
StripIdle ==
    /\ dependency_wit = <<>>
    /\ strip_dest = <<>>
    /\ stripped_wit = <<>>
    /\ stripped = FALSE

\* the loading of the deps directory is not in use
LoadIdle ==
    /\ dep_entries = <<>>
    /\ load_pos = 0
    /\ loaded = <<>>
    /\ load_status = "idle"

\* compose is not in use
ComposeIdle ==
    /\ stub_wasm = <<>>
    /\ compose_pos = 0
    /\ dependencies = <<>>
    /\ compose_status = "idle"

\* build is not in use
BuildIdle ==
    /\ build_args = <<>>
    /\ build_tmp = <<>>
    /\ build_pc = "idle"
    /\ build_status = "idle"
    /\ out_wasm = <<>>
    /\ out_wit = <<>>
    /\ out_wasm0 = <<>>
    /\ out_wit0 = <<>>

\* the stub synthesis is not in use
GenIdle ==
    /\ gen_world = <<>>
    /\ target_file = <<>>
    /\ prev_wit = <<>>
    /\ gen_status = "idle"
    /\ gen_runs = 0

\* the resolver is not in use
ResolverIdle ==
    /\ deps = <<>>
    /\ root = <<>>
    /\ order = <<>>
    /\ visiting = {}
    /\ stack = <<>>
    /\ todo = <<>>
    /\ status = "idle"
    /\ ordered_deps = <<>>
    /\ missing = NoDep

(***************************************************************************)
(* add_stub_dependency: the plan, its verification, its application and    *)
(* the manifest follow-up.                                                 *)
(***************************************************************************)
\* the stub's own package name taken as the target's: "-stub" is not removed
StubTargetPackageNameUnstripped(parsed_name) ==
    [parsed_name EXCEPT !.name = parsed_name.name]

\* the package the stub targets: the stub's package name without "-stub"
StubTargetPackageName(parsed_name) ==
    [parsed_name EXCEPT !.name = StripStubSuffix(parsed_name.name)]

\* wit::get_stub_wit(&stub_definition, StubTypeGen::InlineRootTypes) for the
\* StubDefinition made from the destination's WIT root and world_name
get_stub_wit(destination_wit_root, world_name) ==
    <<"package", " ">> \o PackageId(destination_wit_root.pkg)
      \o <<"-stub", ";", "interface", " ">>
      \o StubInterfaceName(world_name) \o <<"inline-root-types">>

\* `source_deps.into_iter().filter(|dep| find_if_same_package(dep, ..))`
FilteredSourceDeps(source_deps, destination_wit_root) ==
    SelectSeq(source_deps,
              LAMBDA d : find_if_same_package(DepDirCatalogue[d].pkg,
                                              destination_wit_root))

\* the plan when the destination owns the stubbed world
OwnBranchActions(s, destination_wit_root, world_name) ==
    LET filtered == FilteredSourceDeps(s.source_deps, destination_wit_root)
    IN  [i \in 1 .. Len(filtered) |-> CopyDepDir(filtered[i])]
          \o <<WriteWit(get_stub_wit(destination_wit_root, world_name),
                        DirName(s.pkg), "_stub.wit")>>

\* the write actions of one dependency directory in the external-target branch
\* (the entries of fs::read_dir, in a fixed order)
DepDirActions(source_dir, destination_wit_root) ==
    LET d == DepDirCatalogue[source_dir]
        entries == SetToSeq(DOMAIN d.files)
    IN  IF is_invalid_dependency(destination_wit_root, d.pkg) THEN <<>>
        ELSE [i \in 1 .. Len(entries) |->
                 WriteWit(replace_self_imports_from_dependencies(
                              d.files[entries[i]], destination_wit_root),
                          d.dir, entries[i])]

RECURSIVE SourceDepsActions(_, _)
SourceDepsActions(source_deps, destination_wit_root) ==
    IF source_deps = <<>> THEN <<>>
    ELSE DepDirActions(Head(source_deps), destination_wit_root)
           \o SourceDepsActions(Tail(source_deps), destination_wit_root)

\* the plan for an external target
ExternalBranchActions(s, destination_wit_root) ==
    SourceDepsActions(s.source_deps, destination_wit_root)
      \o <<CopyDepWit(StubMainWit(s), DirName(s.pkg))>>

\* proceed as if only the last verification counted
ProceedLastOnly(actions, tree, overwrite) ==
    actions = <<>> \/ verify_action(actions[Len(actions)], tree, overwrite)

\* `let mut proceed = true; for action in &actions { if !verify_action(..)? {
\* proceed = false; } }`
Proceed(actions, tree, overwrite) ==
    \A i \in 1 .. Len(actions) : verify_action(actions[i], tree, overwrite)

\* cargo::add_dependencies_to_cargo_toml: entries for the given directory names
add_dependencies_to_cargo_toml(manifest, names) ==
    [manifest EXCEPT !.deps = @ \cup names]

\* the manifest follow-up without the cargo-component check
ManifestFollowUpUnchecked(manifest, update_cargo_toml, actions) ==
    IF manifest.kind = "noparent"
    THEN [result |-> IF update_cargo_toml THEN "err_no_parent" ELSE "ok",
          cargo |-> manifest]
    ELSE IF manifest.kind \in {"plain", "component"}
    THEN IF ~update_cargo_toml
         THEN [result |-> "ok", cargo |-> manifest]
         ELSE [result |-> "ok",
               cargo |-> add_dependencies_to_cargo_toml(manifest,
                            {get_dep_dir_name(actions[i]) :
                                 i \in 1 .. Len(actions)})]
    ELSE [result |-> IF update_cargo_toml THEN "err_no_manifest" ELSE "ok",
          cargo |-> manifest]

\* the manifest follow-up: the result of the call and the manifest after it
ManifestFollowUp(manifest, update_cargo_toml, actions) ==
    IF manifest.kind = "noparent"
    THEN [result |-> IF update_cargo_toml THEN "err_no_parent" ELSE "ok",
          cargo |-> manifest]
    ELSE IF manifest.kind \in {"plain", "component"}
    THEN IF ~update_cargo_toml
         THEN [result |-> "ok", cargo |-> manifest]
         ELSE IF manifest.kind = "plain"
              THEN [result |-> "err_not_component", cargo |-> manifest]
              ELSE [result |-> "ok",
                    cargo |-> add_dependencies_to_cargo_toml(manifest,
                                 {get_dep_dir_name(actions[i]) :
                                      i \in 1 .. Len(actions)})]
    ELSE [result |-> IF update_cargo_toml THEN "err_no_manifest" ELSE "ok",
          cargo |-> manifest]

NoCall ==
    [result |-> "none", branch |-> "none", world_name |-> <<>>, actions |-> <<>>,
     proceed |-> FALSE, performed |-> FALSE, pre |-> <<>>, preCargo |-> <<>>,
     post |-> <<>>]

\* wit::get_dep_dirs(&args.stub_wit_root): at most MaxDepDirs directories of the
\* catalogue, listed in the order of the catalogue
SourceDepsChoices ==
    {SortedSeq(S) : S \in SmallSubsets(DepDirIds, MaxDepDirs)}

\* what <dest_wit_root>/deps holds before the first call: nothing, an older or the
\* same main stub document, or an unstripped copy of one dependency file
InitialTrees(s) ==
    {<<>>,
     [p \in {<<DirName(s.pkg), "_stub.wit">>} |-> PlainWit("old")],
     [p \in {<<DirName(s.pkg), "_stub.wit">>} |-> StubMainWit(s)],
     [p \in {<<DepDirCatalogue[3].dir, "lib.wit">>} |-> LibWit]}

MergeInit ==
    /\ dest \in [pkg : {PackageName("ns", Caller, 0), PackageName("ns", Target, 0)},
                 worlds : SUBSET Worlds]
    /\ stub \in [pkg : {PackageName("ns", WithStubSuffix(Target), v) : v \in {0, 1}},
                 world : Worlds,
                 source_deps : SourceDepsChoices]
    /\ args \in [overwrite : BOOLEAN, update_cargo_toml : BOOLEAN]
    /\ destDeps \in InitialTrees(stub)
    /\ cargo \in [kind : {"noparent", "none", "plain", "component"}, deps : {{}}]
    /\ runs = 0
    /\ last = NoCall
    /\ prev = NoCall
    /\ ResolverIdle
    /\ StripIdle
    /\ GenIdle
    /\ LoadIdle /\ ComposeIdle /\ BuildIdle

\* one call of add_stub_dependency(args)
add_stub_dependency ==
    /\ runs < MaxRuns
    /\ runs' = runs + 1
    /\ prev' = last
    /\ LET destination_wit_root == dest
           destination_package_name == destination_wit_root.pkg
           stub_target_package_name == StubTargetPackageName(stub.pkg)
       IN  IF destination_package_name = stub_target_package_name
           THEN /\ last' = [NoCall EXCEPT !.result = "err_collision",
                                          !.pre = destDeps, !.preCargo = cargo,
                                          !.post = destDeps]
                /\ UNCHANGED <<destDeps, cargo>>
           ELSE LET world_name == find_world_name(StubInterfaceName(stub.world))
                    owns == dest_owns_stub_world(world_name, destination_wit_root)
                    actions == IF owns
                               THEN OwnBranchActions(stub, destination_wit_root,
                                                     world_name)
                               ELSE ExternalBranchActions(stub, destination_wit_root)
                    proceed == Proceed(actions, destDeps, args.overwrite)
                    follow == ManifestFollowUp(cargo, args.update_cargo_toml, actions)
                IN  /\ destDeps' = IF proceed THEN PerformAll(actions, destDeps)
                                   ELSE destDeps
                    /\ cargo' = follow.cargo
                    /\ last' = [result |-> follow.result,
                                branch |-> IF owns THEN "own" ELSE "external",
                                world_name |-> world_name,
                                actions |-> actions,
                                proceed |-> proceed,
                                performed |-> proceed,
                                pre |-> destDeps,
                                preCargo |-> cargo,
                                post |-> destDeps']
    /\ UNCHANGED <<stub, dest, args, resVars, stripVars, genVars, toolVars>>

MergeNext == add_stub_dependency

SpecMerge == MergeInit /\ [][MergeNext]_vars

(***************************************************************************)
(* Properties of the dependency merge engine.                              *)
(***************************************************************************)
Planned == last.branch # "none"

\* the action's target exists in the tree with a content different from the action's
Conflicts(action, tree) ==
    IF action.kind = "CopyDepDir"
    THEN LET dir == get_dep_dir_name(action)
             existing == {p \in DOMAIN tree : p[1] = dir}
         IN  /\ existing # {}
             /\ \/ existing # DOMAIN Writes(action)
                \/ \E p \in existing : tree[p] # Writes(action)[p]
    ELSE \E p \in DOMAIN Writes(action) :
             p \in DOMAIN tree /\ tree[p] # Writes(action)[p]

SomeConflict ==
    \E i \in 1 .. Len(last.actions) : Conflicts(last.actions[i], last.pre)

\* C3: when some planned action targets an existing path whose content differs
\* from the action's and overwrite is false, no action is performed and the files
\* under the destination WIT root are the same after the call as before it.
C3_ConflictSafety ==
    (Planned /\ ~args.overwrite /\ SomeConflict) =>
        /\ ~last.performed
        /\ destDeps = last.pre

\* a plan of several actions, one in conflict and another one that would have
\* created a new file, was rejected
C3_Witness ==
    /\ Planned /\ ~args.overwrite /\ SomeConflict
    /\ Len(last.actions) >= 2
    /\ \E i \in 1 .. Len(last.actions) :
          /\ ~Conflicts(last.actions[i], last.pre)
          /\ \E p \in DOMAIN Writes(last.actions[i]) : p \notin DOMAIN last.pre
    /\ ~Conflicts(last.actions[Len(last.actions)], last.pre)

\* C4: on every path on which add_stub_dependency returns an error, the content
\* of the destination WIT root is the same as before the call.
C4_NoPartialStateOnError ==
    last.result \notin {"none", "ok"} => destDeps = last.pre

\* C5: when verify_action rejects a planned action and overwrite is false,
\* add_stub_dependency returns an error instead of completing with success.
C5_ConflictIsFailure ==
    (Planned /\ ~args.overwrite /\ ~last.proceed) => last.result # "ok"

\* C6: when the merge is rejected because of a content conflict, the Cargo.toml
\* next to the destination is not modified, even with the update flag set.
C6_RejectedMergeKeepsManifest ==
    (Planned /\ ~last.proceed) => cargo = last.preCargo

SourceDepDirs == {DepDirCatalogue[d] : d \in Range(stub.source_deps)}

\* C8 (for the calls that pass the package-name check): when the destination
\* declares a world with exactly the name of the stubbed world, the ownership
\* branch is taken: the plan holds exactly one write, of the stub regenerated
\* from the destination for that world with inlined types, to <ns>_<name>/_stub.wit,
\* no copy of the on-disk _stub.wit, and one directory copy for each dependency
\* directory whose package name differs from the destination's, none for the others.
C8_OwnershipBranch ==
    (Planned /\ stub.world \in dest.worlds) =>
        LET acts == last.actions
            kept == {d \in Range(stub.source_deps) :
                        DepDirCatalogue[d].pkg # dest.pkg}
            writes == {i \in 1 .. Len(acts) : acts[i].kind = "WriteWit"}
            copies == {i \in 1 .. Len(acts) : acts[i].kind = "CopyDepDir"}
        IN  /\ last.branch = "own"
            /\ Cardinality(writes) = 1
            /\ \A i \in writes :
                  acts[i] = WriteWit(get_stub_wit(dest, stub.world),
                                     DirName(stub.pkg), "_stub.wit")
            /\ \A i \in 1 .. Len(acts) : acts[i].kind # "CopyDepWit"
            /\ Cardinality(copies) = Cardinality(kept)
            /\ {acts[i].source_dir : i \in copies} = kept

\* the package is the destination's own package or its derived stub package
SelfOrSelfStub(pkg) ==
    \/ pkg = dest.pkg
    \/ /\ pkg.namespace = dest.pkg.namespace
       /\ pkg.name = dest.pkg.name \o <<"-stub">>

\* C9: when the destination does not declare the stubbed world, the plan has no
\* action for a dependency directory of the destination's own package or of its
\* derived stub package, one write action per file of every other dependency
\* directory, and ends with exactly one verbatim copy of the stub's _stub.wit.
C9_ExternalBranch ==
    (Planned /\ stub.world \notin dest.worlds) =>
        LET acts == last.actions
            n == Len(acts)
            valid == {d \in SourceDepDirs : ~SelfOrSelfStub(d.pkg)}
        IN  /\ last.branch = "external"
            /\ n >= 1
            /\ acts[n] = CopyDepWit(StubMainWit(stub), DirName(stub.pkg))
            /\ \A i \in 1 .. n - 1 : acts[i].kind = "WriteWit"
            /\ \A d \in SourceDepDirs \ valid :
                  \A i \in 1 .. n - 1 : acts[i].dir_name # d.dir
            /\ \A d \in valid : \A f \in DOMAIN d.files :
                  Cardinality({i \in 1 .. n - 1 : /\ acts[i].dir_name = d.dir
                                                  /\ acts[i].file_name = f}) = 1
            /\ n - 1 = Cardinality(UNION {{<<d.dir, f>> : f \in DOMAIN d.files} :
                                              d \in valid})

\* C12: the world name that find_world_name recovers from the interface name
\* "stub-" + w of the synthesized stub is w, also when w itself holds "stub-"
\* after its first character.
C12_RoundTripNaming ==
    Planned => last.world_name = stub.world

\* two actions of the plan write the same relative path with different contents
PlanCollision(actions) ==
    \E i, j \in 1 .. Len(actions) :
        /\ i < j
        /\ \E p \in DOMAIN Writes(actions[i]) \cap DOMAIN Writes(actions[j]) :
              Writes(actions[i])[p] # Writes(actions[j])[p]

\* C17: a plan in which two actions target the same relative destination path
\* with different content is detected before any action is performed.
C17_PlanPathCollision ==
    (Planned /\ PlanCollision(last.actions)) => ~last.performed


\* the directory names of the planned actions
PlannedDirNames ==
    {get_dep_dir_name(last.actions[i]) : i \in 1 .. Len(last.actions)}

ManifestExists == last.preCargo.kind \in {"plain", "component"}

\* C18 as stated: an existing Cargo.toml with the flag unset gives success and an
\* untouched manifest; an existing Cargo.toml with the flag set gets the
\* dependency directory names appended; the flag set without a Cargo.toml file,
\* or without a parent of the destination WIT root, makes the command fail.
C18_ManifestThreeOutcomes ==
    Planned =>
        /\ (ManifestExists /\ ~args.update_cargo_toml) =>
               last.result = "ok" /\ cargo = last.preCargo
        /\ (ManifestExists /\ args.update_cargo_toml) =>
               /\ last.result = "ok"
               /\ cargo.deps = last.preCargo.deps \cup PlannedDirNames
        /\ (~ManifestExists /\ args.update_cargo_toml) =>
               last.result # "ok" /\ cargo = last.preCargo

\* C18 amended: as above, but the names are appended only to a Cargo.toml that is
\* a cargo-component project; with the flag set and a Cargo.toml that is not one
\* the command fails and the manifest is untouched; with the flag unset and no
\* Cargo.toml the command succeeds silently.
C18_ManifestOutcomes ==
    Planned =>
        /\ ~args.update_cargo_toml =>
               last.result = "ok" /\ cargo = last.preCargo
        /\ (last.preCargo.kind = "component" /\ args.update_cargo_toml) =>
               /\ last.result = "ok"
               /\ cargo.kind = "component"
               /\ cargo.deps = last.preCargo.deps \cup PlannedDirNames
        /\ (last.preCargo.kind = "plain" /\ args.update_cargo_toml) =>
               last.result = "err_not_component" /\ cargo = last.preCargo
        /\ (last.preCargo.kind = "none" /\ args.update_cargo_toml) =>
               last.result = "err_no_manifest" /\ cargo = last.preCargo
        /\ (last.preCargo.kind = "noparent" /\ args.update_cargo_toml) =>
               last.result = "err_no_parent" /\ cargo = last.preCargo

\* a call with the flag set added names to a cargo-component manifest
C18_Witness ==
    /\ Planned /\ args.update_cargo_toml
    /\ last.preCargo.kind = "component"
    /\ last.result = "ok"
    /\ cargo.deps # last.preCargo.deps
    /\ Cardinality(cargo.deps) >= 2

\* the destination's package is the package the stub was generated for: the
\* same namespace and version, and the stub's name is the destination's name
\* followed by "-stub"
SamePackageAsTarget ==
    /\ dest.pkg.namespace = stub.pkg.namespace
    /\ dest.pkg.version = stub.pkg.version
    /\ stub.pkg.name = dest.pkg.name \o <<"-stub">>

\* C22: when the destination's package name equals the stub's target package
\* name (the stub's name without "-stub", same namespace and version), the call
\* returns the collision error: no ownership test is made, no action is
\* planned, and the dependency tree and the manifest are left as they were,
\* whether or not the destination declares the stubbed world; the error is
\* returned for no other destination.
C22_CallerTargetCollision ==
    runs >= 1 =>
      /\ SamePackageAsTarget =>
           /\ last.result = "err_collision"
           /\ last.branch = "none"
           /\ last.actions = <<>>
           /\ ~last.proceed /\ ~last.performed
           /\ destDeps = last.pre /\ cargo = last.preCargo
      /\ last.result = "err_collision" => SamePackageAsTarget

\* a colliding call whose destination declares the stubbed world, made with the
\* overwrite and manifest flags set and dependencies to copy
C22_Witness ==
    /\ runs >= 1
    /\ SamePackageAsTarget
    /\ dest_owns_stub_world(find_world_name(StubInterfaceName(stub.world)), dest)
    /\ args.overwrite /\ args.update_cargo_toml
    /\ stub.source_deps # <<>>
    /\ cargo.kind = "component"
    /\ last.result = "err_collision"

(***************************************************************************)
(* The stripping of one dependency file.  A file is a sequence of          *)
(* statements, each followed by a line break; the pattern works on the     *)
(* text of the file, which knows nothing of statements.                    *)
(***************************************************************************)
Statement(kind, pkg, text) == [kind |-> kind, pkg |-> pkg, text |-> text]

\* the statements a dependency file is made of, for the stub package id P
Statements(P) ==
    {Statement("import", P, <<"import", " ">> \o P \o <<"/", "x", ";">>),
     Statement("import", P, <<"import", " ">> \o P \o <<";">>),
     Statement("import", P, <<"import", " ">> \o P \o <<"/", "x", "@", "1.0.0", ";">>),
     Statement("import", P, <<"import", " ", " ">> \o P \o <<"/", "x", ";">>),
     Statement("import", P, <<"import", " ">> \o P \o <<" ", "/", "x", ";">>),
     Statement("import", P \o <<"-extra">>,
               <<"import", " ">> \o P \o <<"-extra", "/", "x", ";">>),
     Statement("import", <<"x">> \o P, <<"import", " ", "x">> \o P \o <<"/", "x", ";">>),
     Statement("import", <<"other", ":", "lib">>,
               <<"import", " ", "other", ":", "lib", "/", "x", ";">>),
     Statement("use", P, <<"use", " ">> \o P \o <<"/", "x", ".", "{t}", ";">>),
     Statement("interface", <<>>, <<"interface", " ", "x", ";">>)}

RECURSIVE FileText(_)
\* fs::read_to_string(dependency_wit_path)
FileText(stmts) ==
    IF stmts = <<>> THEN <<>>
    ELSE Head(stmts).text \o <<" ">> \o FileText(Tail(stmts))

StripInit ==
    /\ strip_dest \in [pkg : {PackageName("ns", Caller, 0), PackageName("ns", Target, 0)},
                       worlds : {{}}]
    /\ dependency_wit \in
          UNION {[1 .. n -> Statements(SelfStubPackage(strip_dest))] : n \in 0 .. MaxStmts}
    /\ stripped_wit = <<>>
    /\ stripped = FALSE
    /\ ResolverIdle
    /\ MergeIdle
    /\ GenIdle
    /\ LoadIdle /\ ComposeIdle /\ BuildIdle

\* `let source_wit = internal::replace_self_imports_from_dependencies(..)?`
StripFile ==
    /\ ~stripped
    /\ stripped_wit' = replace_self_imports_from_dependencies(FileText(dependency_wit),
                                                            strip_dest)
    /\ stripped' = TRUE
    /\ UNCHANGED <<dependency_wit, strip_dest, resVars, mergeVars, genVars, toolVars>>

StripNext == StripFile

SpecStrip == StripInit /\ [][StripNext]_vars

\* an import statement that references the destination's derived stub package
IsSelfImport(stmt) ==
    stmt.kind = "import" /\ stmt.pkg = SelfStubPackage(strip_dest)

RECURSIVE WithoutSelfImports(_)
\* the text of the file with the self-imports taken out, the rest unchanged
WithoutSelfImports(stmts) ==
    IF stmts = <<>> THEN <<>>
    ELSE (IF IsSelfImport(Head(stmts)) THEN <<>> ELSE Head(stmts).text)
           \o <<" ">> \o WithoutSelfImports(Tail(stmts))

\* C10: the content written for a dependency file holds no import statement that
\* references the destination's derived stub package, with or without sub-path
\* or version suffix, and everything else of the file is kept unchanged.
C10_SelfImportStripping ==
    stripped => stripped_wit = WithoutSelfImports(dependency_wit)

(***************************************************************************)
(* Package graph resolver.                                                 *)
(* The source is the root package (0) or a package of the deps directory.  *)
(***************************************************************************)
RootSrc == 0

EdgeUniverse == (Names \cup {RootSrc}) \X Names

ResolverInit ==
    \E E \in SmallSubsets(EdgeUniverse, MaxEdges), D \in SUBSET Names, rn \in Names :
        /\ \A e \in E : e[1] # RootSrc => e[1] \in D
        /\ deps = [d \in D |-> {e[2] : e \in {x \in E : x[1] = d}}]
        /\ root = [name |-> rn, foreign_deps |-> {e[2] : e \in {x \in E : x[1] = RootSrc}}]
        /\ order = <<>>
        /\ visiting = {}
        /\ stack = <<>>
        /\ todo = SortedSeq(D) \o <<RootSrc>>
        /\ status = "running"
        /\ ordered_deps = <<>>
        /\ missing = NoDep
        /\ MergeIdle
        /\ StripIdle
        /\ GenIdle
        /\ LoadIdle /\ ComposeIdle /\ BuildIdle

Top == stack[Len(stack)]

PkgName(src) == IF src = RootSrc THEN root.name ELSE src

PkgDeps(src) == IF src = RootSrc THEN root.foreign_deps ELSE deps[src]

Frame(src) == [pkg |-> src, entered |-> FALSE, rest |-> PkgDeps(src), cur |-> NoDep]

\* StartVisit that marks the package of the top-level call as being visited
StartVisitInsert ==
    /\ status = "running"
    /\ stack = <<>>
    /\ todo # <<>>
    /\ stack' = <<Frame(Head(todo))>>
    /\ todo' = Tail(todo)
    /\ visiting' = visiting \cup {PkgName(Head(todo))}
    /\ UNCHANGED <<deps, root, order, status, ordered_deps, missing,
                   mergeVars, stripVars, genVars, toolVars>>

\* get_unresolved_packages, the loop `for pkg in deps.values().chain([&root])`:
\* the next top-level call of visit
StartVisit ==
    /\ status = "running"
    /\ stack = <<>>
    /\ todo # <<>>
    /\ stack' = <<Frame(Head(todo))>>
    /\ todo' = Tail(todo)
    /\ UNCHANGED <<deps, root, order, visiting, status, ordered_deps, missing,
                   mergeVars, stripVars, genVars, toolVars>>

\* ReturnOk without the `visiting.remove` of the recursive caller
ReturnOkNoRemove(stk, vis) ==
    IF Len(stk) = 1
    THEN /\ stack' = <<>>
         /\ visiting' = vis
         /\ status' = status
    ELSE /\ stack' = [SubSeq(stk, 1, Len(stk) - 1) EXCEPT ![Len(stk) - 1].cur = NoDep]
         /\ visiting' = vis
         /\ status' = status

\* what the caller of a visit that returned Ok does next: the top-level loop goes
\* on, a recursive caller runs `assert!(visiting.remove(&dep.name))`
ReturnOk(stk, vis) ==
    IF Len(stk) = 1
    THEN /\ stack' = <<>>
         /\ visiting' = vis
         /\ status' = status
    ELSE LET caller == stk[Len(stk) - 1]
         IN  IF caller.cur \in vis
             THEN /\ stack' = [SubSeq(stk, 1, Len(stk) - 1) EXCEPT
                                   ![Len(stk) - 1].cur = NoDep]
                  /\ visiting' = vis \ {caller.cur}
                  /\ status' = status
             ELSE /\ stack' = <<>>
                  /\ visiting' = vis
                  /\ status' = "panic"

\* visit: `if order.contains(&pkg.name) { return Ok(()) }`
VisitEnter ==
    /\ status = "running"
    /\ stack # <<>>
    /\ ~Top.entered
    /\ IF Contains(order, PkgName(Top.pkg))
       THEN ReturnOk(stack, visiting)
       ELSE /\ stack' = [stack EXCEPT ![Len(stack)].entered = TRUE]
            /\ UNCHANGED <<visiting, status>>
    /\ UNCHANGED <<deps, root, order, todo, ordered_deps, missing, mergeVars,
                   stripVars, genVars, toolVars>>

\* VisitDep that skips a dependency found in `visiting` instead of bailing out
VisitDepSkip ==
    /\ status = "running"
    /\ stack # <<>>
    /\ Top.entered
    /\ Top.cur = NoDep
    /\ \E dep \in Top.rest :
        IF dep \in visiting
        THEN /\ status' = status
             /\ stack' = [stack EXCEPT ![Len(stack)].rest = @ \ {dep}]
             /\ UNCHANGED <<visiting, missing>>
        ELSE /\ visiting' = visiting \cup {dep}
             /\ IF dep \notin DOMAIN deps
                THEN /\ status' = "err_missing"
                     /\ missing' = dep
                     /\ stack' = <<>>
                ELSE /\ status' = status
                     /\ UNCHANGED missing
                     /\ stack' = [stack EXCEPT ![Len(stack)].rest = @ \ {dep},
                                               ![Len(stack)].cur = dep]
                                 \o <<Frame(dep)>>
    /\ UNCHANGED <<deps, root, order, todo, ordered_deps, mergeVars, stripVars, genVars, toolVars>>

\* visit: one iteration of `for (dep, _) in pkg.foreign_deps.iter()` up to the
\* recursive call (foreign_deps is iterated in declaration order, which is any order)
VisitDep ==
    /\ status = "running"
    /\ stack # <<>>
    /\ Top.entered
    /\ Top.cur = NoDep
    /\ \E dep \in Top.rest :
        IF dep \in visiting
        THEN \* bail!("package depends on itself")
             /\ status' = "err_cycle"
             /\ stack' = <<>>
             /\ UNCHANGED <<visiting, missing>>
        ELSE /\ visiting' = visiting \cup {dep}
             /\ IF dep \notin DOMAIN deps
                THEN \* failed to find package `{dep}` in `deps` directory
                     /\ status' = "err_missing"
                     /\ missing' = dep
                     /\ stack' = <<>>
                ELSE /\ status' = status
                     /\ UNCHANGED missing
                     /\ stack' = [stack EXCEPT ![Len(stack)].rest = @ \ {dep},
                                               ![Len(stack)].cur = dep]
                                 \o <<Frame(dep)>>
    /\ UNCHANGED <<deps, root, order, todo, ordered_deps, mergeVars, stripVars, genVars, toolVars>>

\* visit: the loop is over, `assert!(order.insert(pkg.name.clone())); Ok(())`
VisitFinish ==
    /\ status = "running"
    /\ stack # <<>>
    /\ Top.entered
    /\ Top.cur = NoDep
    /\ Top.rest = {}
    /\ IF Contains(order, PkgName(Top.pkg))
       THEN /\ status' = "panic"
            /\ stack' = <<>>
            /\ UNCHANGED <<order, visiting>>
       ELSE /\ order' = Append(order, PkgName(Top.pkg))
            /\ ReturnOk(stack, visiting)
    /\ UNCHANGED <<deps, root, todo, ordered_deps, missing, mergeVars, stripVars, genVars, toolVars>>

\* get_unresolved_packages: `for name in order { deps.remove(&name) ... }` and
\* `Ok((root, ordered_deps))`
Finish ==
    /\ status = "running"
    /\ stack = <<>>
    /\ todo = <<>>
    /\ ordered_deps' = FilterSeq(order, DOMAIN deps)
    /\ status' = "ok"
    /\ UNCHANGED <<deps, root, order, visiting, stack, todo, missing, mergeVars,
                   stripVars, genVars, toolVars>>

ResolverNext == StartVisit \/ VisitEnter \/ VisitDep \/ VisitFinish \/ Finish

SpecResolver == ResolverInit /\ [][ResolverNext]_vars

(***************************************************************************)
(* Properties of the package graph resolver.                               *)
(* A reference to a name resolves to the package of that name in the deps  *)
(* directory; it resolves to the root package only when the deps directory *)
(* has no package of that name.                                            *)
(***************************************************************************)
RECURSIVE Closure(_)
\* the names reachable from the names of S through foreign_deps (S included)
Closure(S) ==
    LET next == S \cup UNION {deps[n] : n \in S \cap DOMAIN deps}
    IN  IF next = S THEN S ELSE Closure(next)

ReachableFrom(src) == Closure(PkgDeps(src))

AllPresent ==
    \A src \in DOMAIN deps \cup {RootSrc} : PkgDeps(src) \subseteq DOMAIN deps

DepCyclic == \E d \in DOMAIN deps : d \in ReachableFrom(d)

RootCyclic == root.name \notin DOMAIN deps /\ root.name \in ReachableFrom(RootSrc)

Cyclic == DepCyclic \/ RootCyclic

\* the packages are built in the order ordered_deps, then the root
TopoValid ==
    /\ Range(ordered_deps) = DOMAIN deps
    /\ NoDuplicates(ordered_deps)
    /\ \A i \in 1 .. Len(ordered_deps) :
           deps[ordered_deps[i]] \subseteq {ordered_deps[j] : j \in 1 .. i - 1}
    /\ root.foreign_deps \subseteq Range(ordered_deps)

\* C1: for an acyclic dependency set whose referenced packages are all in the deps
\* directory, get_unresolved_packages reports no error (no false cycle, no failed
\* assertion), and the order it returns holds every package exactly once, after all
\* the packages of its foreign_deps (the root is built last).
C1_TopologicalValidity ==
    (AllPresent /\ ~Cyclic) =>
        /\ status \in {"running", "ok"}
        /\ status = "ok" => TopoValid

\* a diamond: two packages reference the same third one, and the resolver finished
C1_Witness ==
    /\ status = "ok"
    /\ AllPresent /\ ~Cyclic
    /\ \E a, b \in DOMAIN deps \cup {RootSrc} :
          /\ a # b
          /\ PkgDeps(a) \cap PkgDeps(b) # {}
          /\ b \in PkgDeps(a)
    /\ Len(ordered_deps) >= 2

MissingRefs ==
    (UNION {deps[d] : d \in DOMAIN deps} \cup root.foreign_deps) \ DOMAIN deps

\* C19: when a package of deps or the root references a package that is not in
\* the deps directory, get_unresolved_packages ends with the error that names a
\* missing package and returns no order.
C19_MissingDependencyFatal ==
    MissingRefs # {} =>
        /\ status \in {"running", "err_missing"}
        /\ status = "err_missing" => missing \in MissingRefs
        /\ ordered_deps = <<>>

\* the names of the packages of the recursive calls of visit that have not
\* returned: every entry of the current traversal path but the first, which is
\* the package of the top-level call
RecursivePath == {PkgName(stack[i].pkg) : i \in 2 .. Len(stack)}

\* the names of the packages on the current traversal path
TraversalPath == {PkgName(stack[i].pkg) : i \in 1 .. Len(stack)}

\* the name of the package the current top-level call started from
StartPackage == IF stack = <<>> THEN {} ELSE {PkgName(stack[1].pkg)}

\* neither `assert!(visiting.remove(&dep.name))` nor
\* `assert!(order.insert(pkg.name.clone()))` has failed
NoAssertionFailed == status # "panic"

\* C23 as stated: no assertion of visit fails, and while get_unresolved_packages
\* runs the visiting set holds exactly the packages on the current traversal
\* path other than the package the top-level call started from (so it is empty
\* between two top-level calls).
C23_VisitingExcludesStartPackage ==
    /\ NoAssertionFailed
    /\ status \in {"running", "ok"} => visiting = TraversalPath \ StartPackage

\* C23: the two assertions of visit never fail, for any dependency graph; while
\* get_unresolved_packages runs the visiting set holds exactly the packages of
\* the recursive calls on the current traversal path, each once (the package of
\* the top-level call is not inserted by that call, and its name is in the set
\* when a dependency cycle has led the traversal back to it); the set is empty
\* after every successful top-level visit and when the order is returned.
C23_VisitingIsRecursivePath ==
    /\ NoAssertionFailed
    /\ status \in {"running", "ok"} =>
         /\ visiting = RecursivePath
         /\ Cardinality(visiting) = IF stack = <<>> THEN 0 ELSE Len(stack) - 1
         /\ \A i \in 1 .. Len(stack) - 1 : stack[i].cur = stack[i + 1].pkg
         /\ stack = <<>> => visiting = {}

\* the traversal has come back, through another package, to the package its
\* top-level call started from, after an earlier top-level visit had succeeded
C23_Witness ==
    /\ status = "running"
    /\ Len(stack) = 3
    /\ stack[3].pkg = stack[1].pkg
    /\ PkgName(stack[1].pkg) \in visiting
    /\ Cardinality(visiting) = 2
    /\ order # <<>>

(***************************************************************************)
(* Stub synthesis: collect_stub_interfaces and generate_stub_wit.          *)
(* A type is the text wit_type_string gives for it; "" is a Type::Id whose *)
(* type has no name, for which wit_type_string returns an error.  The      *)
(* written document is a sequence of lines, a line a sequence of tokens.   *)
(***************************************************************************)
\* number of exports of the selected world
MaxExports == 3
\* number of generate_stub_wit calls in a row
MaxGenRuns == 2

Param(name, typ) == [name |-> name, typ |-> typ]

Single(typ) == [single |-> TRUE, items |-> <<Param("", typ)>>]

Multi(params) == [single |-> FALSE, items |-> params]

Func(name, kind, params, results) ==
    [name |-> name, kind |-> kind, params |-> params, results |-> results]

\* a type of an interface or of the world's exports with the path of the interface
\* that owns it ("" when the owner is a world or none)
TypeDef(name, owner) == [name |-> name, owner |-> owner]

\* an entry of world.exports; name is "" for an interface without a name
WorldItem(kind, key, name, functions, types) ==
    [kind |-> kind, key |-> key, name |-> name, functions |-> functions,
     types |-> types]

\* the exports a world is made of
ExportCatalogue ==
    {WorldItem("interface", "a", "a",
               <<Func("get", "freestanding", <<Param("k", "u32")>>, Single("string")),
                 Func("[method]r.m", "method", <<>>, Multi(<<>>)),
                 Func("add", "freestanding", <<Param("k", "u32"), Param("v", "t")>>,
                      Multi(<<>>))>>,
               <<TypeDef("t", "other:pkg/types"), TypeDef("u", "other:pkg/more")>>),
     WorldItem("interface", "b", "b", <<>>,
               <<TypeDef("u", "other:pkg/more"), TypeDef("t", "other:pkg/types"),
                 TypeDef("w", "")>>),
     WorldItem("interface", "c", "",
               <<Func("blob", "freestanding", <<Param("data", "")>>, Single("u32"))>>,
               <<>>),
     WorldItem("function", "run", "",
               <<Func("run", "freestanding", <<Param("x", "u32")>>,
                      Multi(<<Param("p", "u32"), Param("q", "string")>>))>>, <<>>),
     WorldItem("function", "stop", "",
               <<Func("stop", "freestanding", <<>>, Multi(<<>>))>>, <<>>),
     WorldItem("type", "v", "", <<>>, <<TypeDef("v", "other:pkg/types")>>)}

\* the sequences of at most n elements of S
RECURSIVE Arrangements(_, _)
Arrangements(S, n) ==
    IF n = 0 THEN {<<>>}
    ELSE LET shorter == Arrangements(S, n - 1)
         IN  shorter \cup {Append(a, x) : a \in shorter, x \in S}

RECURSIVE Flatten(_)
\* the concatenation of the sequences of ss, in the order of ss
Flatten(ss) ==
    IF ss = <<>> THEN <<>> ELSE Head(ss) \o Flatten(Tail(ss))

RECURSIVE Dedup(_)
\* the elements of s in the order of their first occurrence
Dedup(s) ==
    IF s = <<>> THEN <<>>
    ELSE LET d == Dedup(SubSeq(s, 1, Len(s) - 1))
         IN  IF Contains(d, s[Len(s)]) THEN d ELSE Append(d, s[Len(s)])

\* the orders a HashSet of the elements of s can be iterated in
HashSetOrders(s) ==
    {f \in [1 .. Cardinality(Range(s)) -> Range(s)] :
        \A i, j \in DOMAIN f : f[i] = f[j] => i = j}

\* `.collect::<IndexSet<_>>()`: the orders an IndexSet of the elements of s is
\* iterated in, which is the insertion order alone
IndexSetOrders(s) == {Dedup(s)}

\* collect_stub_functions without the filter on FunctionKind::Freestanding
collect_stub_functions_unfiltered(functions) ==
    [i \in 1 .. Len(functions) |->
        [name |-> functions[i].name, params |-> functions[i].params,
         results |-> functions[i].results]]

\* collect_stub_functions
collect_stub_functions(functions) ==
    LET freestanding == SelectSeq(functions, LAMBDA f : f.kind = "freestanding")
    IN  [i \in 1 .. Len(freestanding) |->
            [name |-> freestanding[i].name, params |-> freestanding[i].params,
             results |-> freestanding[i].results]]

\* collect_stub_imports
collect_stub_imports(types) ==
    LET owned == SelectSeq(types, LAMBDA t : t.owner # "")
    IN  [i \in 1 .. Len(owned) |-> [name |-> owned[i].name, path |-> owned[i].owner]]

InterfaceStub(name, functions, imports) ==
    [name |-> name, functions |-> functions, imports |-> imports]

\* collect_stub_interfaces
collect_stub_interfaces(w) ==
    LET top_level_types ==
            LET items == SelectSeq(w.exports, LAMBDA item : item.kind = "type")
            IN  Flatten([i \in 1 .. Len(items) |-> items[i].types])
        top_level_functions ==
            LET items == SelectSeq(w.exports, LAMBDA item : item.kind = "function")
            IN  Flatten([i \in 1 .. Len(items) |-> items[i].functions])
        exported == SelectSeq(w.exports, LAMBDA item : item.kind = "interface")
        interfaces ==
            [i \in 1 .. Len(exported) |->
                InterfaceStub(IF exported[i].name # "" THEN exported[i].name
                              ELSE exported[i].key,
                              collect_stub_functions(exported[i].functions),
                              collect_stub_imports(exported[i].types))]
    IN  IF top_level_functions # <<>>
        THEN Append(interfaces,
                    InterfaceStub(w.name, collect_stub_functions(top_level_functions),
                                  collect_stub_imports(top_level_types)))
        ELSE interfaces

\* TypeExtensions::wit_type_string fails: "type has no name"
TypeError(typ) == typ = ""

\* FunctionResultStub::is_empty
ResultsIsEmpty(results) == ~results.single /\ results.items = <<>>

RECURSIVE ParamList(_)
\* `name: type` for each parameter, separated by ", "
ParamList(params) ==
    IF params = <<>> THEN <<>>
    ELSE <<Head(params).name, ":", Head(params).typ>>
           \o (IF Len(params) > 1 THEN <<",">> ELSE <<>>) \o ParamList(Tail(params))

\* the line of one function of a resource
FunctionLine(function) ==
    <<"func", function.name, "(">> \o ParamList(function.params) \o <<")">>
      \o (IF ResultsIsEmpty(function.results) THEN <<>>
          ELSE IF function.results.single
               THEN <<"->", function.results.items[1].typ>>
               ELSE <<"->", "(">> \o ParamList(function.results.items) \o <<")">>)
      \o <<";">>

\* the resource block without its constructor line
ResourceLinesNoConstructor(interface) ==
    <<<<"resource", interface.name, "{">>>>
      \o [i \in 1 .. Len(interface.functions) |-> FunctionLine(interface.functions[i])]
      \o <<<<"}">>, <<>>>>

\* the lines of one resource: `resource <name> {`, the constructor, the functions
ResourceLines(interface) ==
    <<<<"resource", interface.name, "{">>,
      <<"constructor", "(", "location", ":", "uri", ")", ";">>>>
      \o [i \in 1 .. Len(interface.functions) |-> FunctionLine(interface.functions[i])]
      \o <<<<"}">>, <<>>>>

\* some type of an emitted function has no name
HasTypeError(interfaces) ==
    \E i \in 1 .. Len(interfaces) :
        \E j \in 1 .. Len(interfaces[i].functions) :
            LET f == interfaces[i].functions[j]
            IN  \/ \E k \in 1 .. Len(f.params) : TypeError(f.params[k].typ)
                \/ \E k \in 1 .. Len(f.results.items) : TypeError(f.results.items[k].typ)

\* the text generate_stub_wit builds in `out`
StubText(package_name, w, target_world_name, interfaces, all_imports) ==
    <<<<"package", package_name, ";">>, <<>>,
      <<"interface", "stub-", w.name, "{">>,
      <<"use", "golem:rpc/types@0.1.0", "uri">>>>
      \o [i \in 1 .. Len(all_imports) |->
             <<"use", all_imports[i].path, all_imports[i].name>>]
      \o <<<<>>>>
      \o Flatten([i \in 1 .. Len(interfaces) |-> ResourceLines(interfaces[i])])
      \o <<<<"}">>, <<>>,
           <<"world", target_world_name, "{">>,
           <<"export", "stub-", w.name, ";">>,
           <<"}">>>>

GenInit ==
    /\ gen_world \in [name : {"api"},
                      exports : {e \in Arrangements(ExportCatalogue, MaxExports) :
                                    NoDuplicates(e)}]
    /\ target_file = <<>>
    /\ prev_wit = <<>>
    /\ gen_status = "none"
    /\ gen_runs = 0
    /\ ResolverIdle
    /\ MergeIdle
    /\ StripIdle
    /\ LoadIdle /\ ComposeIdle /\ BuildIdle

\* one call of generate_stub_wit(resolve, package_name, world_id, target_world_name,
\* target): the file is written by the last statement, after every line was built
generate_stub_wit ==
    /\ gen_runs < MaxGenRuns
    /\ gen_runs' = gen_runs + 1
    /\ prev_wit' = target_file
    /\ LET interfaces == collect_stub_interfaces(gen_world)
           imports == Flatten([i \in 1 .. Len(interfaces) |-> interfaces[i].imports])
       IN  IF HasTypeError(interfaces)
           THEN /\ gen_status' = "err"
                /\ UNCHANGED target_file
           ELSE /\ gen_status' = "ok"
                /\ \E all_imports \in IndexSetOrders(imports) :
                      target_file' = StubText("ns:pkg", gen_world, "wasm-rpc-stub-api",
                                              interfaces, all_imports)
    /\ UNCHANGED <<gen_world, resVars, mergeVars, stripVars, toolVars>>

GenNext == generate_stub_wit

SpecGen == GenInit /\ [][GenNext]_vars

(***************************************************************************)
(* Properties of the stub synthesis.                                       *)
(***************************************************************************)
RECURSIVE ParseResources(_, _)
\* the resources of a document, in the order of the text: the name, the
\* constructor lines and the names of the function lines of each
ParseResources(lines, acc) ==
    IF lines = <<>> THEN acc
    ELSE LET line == Head(lines)
             n == Len(acc)
         IN  IF line # <<>> /\ line[1] = "resource"
             THEN ParseResources(Tail(lines),
                      Append(acc, [name |-> line[2], constructors |-> <<>>,
                                   functions |-> <<>>]))
             ELSE IF line # <<>> /\ line[1] = "constructor" /\ n > 0
             THEN ParseResources(Tail(lines),
                      [acc EXCEPT ![n].constructors = Append(@, line)])
             ELSE IF line # <<>> /\ line[1] = "func" /\ n > 0
             THEN ParseResources(Tail(lines),
                      [acc EXCEPT ![n].functions = Append(@, line[2])])
             ELSE ParseResources(Tail(lines), acc)

Resources == ParseResources(target_file, <<>>)

\* the `use` lines of the document after the fixed one of uri: <<path, name>>
UseLines ==
    LET uses == SelectSeq(target_file, LAMBDA l : l # <<>> /\ l[1] = "use")
    IN  [i \in 1 .. Len(uses) - 1 |-> <<uses[i + 1][2], uses[i + 1][3]>>]

ExportedInterfaces ==
    SelectSeq(gen_world.exports, LAMBDA item : item.kind = "interface")

ExportedFunctions ==
    SelectSeq(gen_world.exports, LAMBDA item : item.kind = "function")

\* the names of the freestanding functions, in declaration order
DeclaredFunctionNames(functions) ==
    LET fs == SelectSeq(functions, LAMBDA f : f.kind = "freestanding")
    IN  [i \in 1 .. Len(fs) |-> fs[i].name]

\* the types owned by an interface, in declaration order: <<path, name>>
DeclaredImports ==
    LET OfTypes(item) ==
            LET owned == SelectSeq(item.types, LAMBDA t : t.owner # "")
            IN  [i \in 1 .. Len(owned) |-> <<owned[i].owner, owned[i].name>>]
        exported_types == SelectSeq(gen_world.exports, LAMBDA item : item.kind = "type")
    IN  Flatten([i \in 1 .. Len(ExportedInterfaces) |-> OfTypes(ExportedInterfaces[i])])
          \o (IF ExportedFunctions = <<>> THEN <<>>
              ELSE Flatten([i \in 1 .. Len(exported_types) |->
                               OfTypes(exported_types[i])]))

\* the index of the first occurrence of x in seq
FirstIndex(seq, x) ==
    CHOOSE i \in 1 .. Len(seq) : seq[i] = x /\ \A j \in 1 .. i - 1 : seq[j] # x

\* C13: a second run of the synthesis on the same world writes the same text as
\* the first; the resources of the exported interfaces are in the order of the
\* world's exports (the resource of the standalone functions comes last), the
\* functions of a resource in declaration order, and the imports in the order
\* of their first occurrence, without duplicates.
C13_SynthesisDeterminism ==
    (gen_runs = 2 /\ gen_status = "ok") =>
        /\ target_file = prev_wit
        /\ Len(Resources) = Len(ExportedInterfaces)
                              + (IF ExportedFunctions = <<>> THEN 0 ELSE 1)
        /\ \A i \in 1 .. Len(ExportedInterfaces) :
              /\ Resources[i].name = (IF ExportedInterfaces[i].name # ""
                                      THEN ExportedInterfaces[i].name
                                      ELSE ExportedInterfaces[i].key)
              /\ Resources[i].functions =
                     DeclaredFunctionNames(ExportedInterfaces[i].functions)
        /\ ExportedFunctions # <<>> =>
              /\ Resources[Len(Resources)].name = gen_world.name
              /\ Resources[Len(Resources)].functions =
                     [i \in 1 .. Len(ExportedFunctions) |-> ExportedFunctions[i].key]
        /\ NoDuplicates(UseLines)
        /\ Range(UseLines) = Range(DeclaredImports)
        /\ \A i, j \in 1 .. Len(UseLines) :
              i < j => FirstIndex(DeclaredImports, UseLines[i])
                         < FirstIndex(DeclaredImports, UseLines[j])

\* two runs on a world with two exported interfaces, several functions in one of
\* them, standalone functions and an import declared more than once
C13_Witness ==
    /\ gen_runs = 2 /\ gen_status = "ok"
    /\ Len(ExportedInterfaces) = 2
    /\ ExportedFunctions # <<>>
    /\ \E i \in 1 .. Len(Resources) : Len(Resources[i].functions) >= 2
    /\ Len(UseLines) >= 2
    /\ Len(DeclaredImports) > Len(UseLines)

\* C14: every resource of a synthesized stub interface has exactly one
\* constructor, and it takes the single parameter `location: uri`.
C14_ResourceConstructor ==
    gen_status = "ok" =>
        \A i \in 1 .. Len(Resources) :
            Resources[i].constructors =
                <<<<"constructor", "(", "location", ":", "uri", ")", ";">>>>

\* a stub with a resource without functions and a resource with functions
C14_Witness ==
    /\ gen_status = "ok"
    /\ \E i \in 1 .. Len(Resources) : Resources[i].functions = <<>>
    /\ \E i \in 1 .. Len(Resources) : Len(Resources[i].functions) >= 2

\* C15: the synthesis for a world that exports no interface and no standalone
\* function returns an error and writes no stub document.
C15_EmptyWorldFatal ==
    (gen_runs >= 1 /\ ExportedInterfaces = <<>> /\ ExportedFunctions = <<>>) =>
        /\ gen_status = "err"
        /\ target_file = <<>>

RECURSIVE ParseParams(_)
\* the parameters written as `name: type` separated by ",": <<name, type>> each
ParseParams(tokens) ==
    IF Len(tokens) < 3 THEN <<>>
    ELSE <<<<tokens[1], tokens[3]>>>>
           \o ParseParams(SubSeq(tokens, IF Len(tokens) > 3 THEN 5 ELSE 4, Len(tokens)))

\* a function line read back: its name, its parameters and its result shape
ParseFunctionLine(line) ==
    LET close == FirstIndex(line, ")")
        rest == SubSeq(line, close + 1, Len(line) - 1)
    IN  [name |-> line[2],
         params |-> ParseParams(SubSeq(line, 4, close - 1)),
         shape |-> IF rest = <<>> THEN "none"
                   ELSE IF rest[2] = "(" THEN "multi" ELSE "single",
         results |-> IF rest = <<>> THEN <<>>
                     ELSE IF rest[2] = "(" THEN ParseParams(SubSeq(rest, 3, Len(rest) - 1))
                     ELSE <<<<"", rest[2]>>>>]

RECURSIVE ParseMethods(_, _)
\* the methods of each resource of a document, in the order of the text
ParseMethods(lines, acc) ==
    IF lines = <<>> THEN acc
    ELSE LET line == Head(lines)
             n == Len(acc)
         IN  IF line # <<>> /\ line[1] = "resource"
             THEN ParseMethods(Tail(lines), Append(acc, <<>>))
             ELSE IF line # <<>> /\ line[1] = "func" /\ n > 0
             THEN ParseMethods(Tail(lines),
                      [acc EXCEPT ![n] = Append(@, ParseFunctionLine(line))])
             ELSE ParseMethods(Tail(lines), acc)

Methods == ParseMethods(target_file, <<>>)

\* what a declared function looks like as a method: the same name, the same
\* ordered parameters and the same result shape
Mirrored(f) ==
    [name |-> f.name,
     params |-> [i \in 1 .. Len(f.params) |-> <<f.params[i].name, f.params[i].typ>>],
     shape |-> IF f.results.single THEN "single"
               ELSE IF f.results.items = <<>> THEN "none" ELSE "multi",
     results |-> [i \in 1 .. Len(f.results.items) |->
                     <<f.results.items[i].name, f.results.items[i].typ>>]]

\* the freestanding functions of a list of functions, as methods
MirroredFreestanding(functions) ==
    LET fs == SelectSeq(functions, LAMBDA f : f.kind = "freestanding")
    IN  [i \in 1 .. Len(fs) |-> Mirrored(fs[i])]

\* C21: the resource of every exported interface has exactly one method per
\* freestanding function of the interface, with the same name, the same ordered
\* parameters and the same result shape, and none for the other functions; the
\* standalone functions of the world are the methods of one more resource named
\* after the world, which exists only when there is a standalone function.
C21_FunctionMirroring ==
    gen_status = "ok" =>
        /\ Len(Methods) = Len(ExportedInterfaces)
                            + (IF ExportedFunctions = <<>> THEN 0 ELSE 1)
        /\ Len(Resources) = Len(Methods)
        /\ \A i \in 1 .. Len(ExportedInterfaces) :
              Methods[i] = MirroredFreestanding(ExportedInterfaces[i].functions)
        /\ ExportedFunctions # <<>> =>
              /\ Resources[Len(Resources)].name = gen_world.name
              /\ Methods[Len(Methods)] =
                     [i \in 1 .. Len(ExportedFunctions) |->
                         Mirrored(ExportedFunctions[i].functions[1])]

\* a stub for an interface that holds a function that is not freestanding next to
\* freestanding ones, and for standalone functions with and without results
C21_Witness ==
    /\ gen_status = "ok"
    /\ \E i \in 1 .. Len(ExportedInterfaces) :
          /\ \E k \in 1 .. Len(ExportedInterfaces[i].functions) :
                ExportedInterfaces[i].functions[k].kind # "freestanding"
          /\ \E k \in 1 .. Len(Methods[i]) : Methods[i][k].shape = "single"
          /\ \E k \in 1 .. Len(Methods[i]) : Len(Methods[i][k].params) = 2
    /\ Len(ExportedFunctions) = 2
    /\ \E k \in 1 .. 2 : Methods[Len(Methods)][k].shape = "multi"
    /\ \E k \in 1 .. 2 : Methods[Len(Methods)][k].shape = "none"

(***************************************************************************)
(* get_unresolved_packages: the loading of the deps directory into the     *)
(* BTreeMap `deps`.                                                        *)
(***************************************************************************)
\* number of directories under deps
MaxEntries == 3

\* a directory under deps and the package it parses to (valid: it parses)
DepEntry(dir, valid, pkg) == [dir |-> dir, valid |-> valid, pkg |-> pkg]

DepEntryCatalogue ==
    {DepEntry("a", TRUE, PackageName("ns", <<"a">>, 0)),
     DepEntry("a-copy", TRUE, PackageName("ns", <<"a">>, 0)),
     DepEntry("a-1", TRUE, PackageName("ns", <<"a">>, 1)),
     DepEntry("b", TRUE, PackageName("ns", <<"b">>, 0)),
     DepEntry("junk", FALSE, PackageName("", <<>>, 0))}

LoadInit ==
    /\ dep_entries \in {e \in Arrangements(DepEntryCatalogue, MaxEntries) :
                           NoDuplicates(e)}
    /\ load_pos = 0
    /\ loaded = <<>>
    /\ load_status = "reading"
    /\ ResolverIdle /\ MergeIdle /\ StripIdle /\ GenIdle
    /\ ComposeIdle /\ BuildIdle

\* BTreeMap::insert: the value of an existing key is replaced
MapInsert(map, key, value) ==
    [k \in DOMAIN map \cup {key} |-> IF k = key THEN value ELSE map[k]]

\* one iteration of `for dep_entry in fs::read_dir(deps_path).unwrap()`
InsertDep ==
    /\ load_status = "reading"
    /\ load_pos < Len(dep_entries)
    /\ LET dep == dep_entries[load_pos + 1]
       IN  IF dep.valid
           THEN /\ loaded' = MapInsert(loaded, dep.pkg, dep.dir)
                /\ load_pos' = load_pos + 1
                /\ UNCHANGED load_status
           ELSE \* UnresolvedPackage::parse_path(..).unwrap()
                /\ load_status' = "panic"
                /\ UNCHANGED <<loaded, load_pos>>
    /\ UNCHANGED <<dep_entries, resVars, mergeVars, stripVars, genVars, composeVars,
                   buildVars>>

\* the loop is over: the traversal starts with the map as it is
LoadDone ==
    /\ load_status = "reading"
    /\ load_pos = Len(dep_entries)
    /\ load_status' = "loaded"
    /\ UNCHANGED <<dep_entries, load_pos, loaded, resVars, mergeVars, stripVars,
                   genVars, composeVars, buildVars>>

LoadNext == InsertDep \/ LoadDone

SpecLoad == LoadInit /\ [][LoadNext]_vars

\* two directories under deps parse to packages with the same namespace and name
DuplicateIdentity ==
    \E i, j \in 1 .. Len(dep_entries) :
        /\ i < j
        /\ dep_entries[i].valid /\ dep_entries[j].valid
        /\ dep_entries[i].pkg.namespace = dep_entries[j].pkg.namespace
        /\ dep_entries[i].pkg.name = dep_entries[j].pkg.name

\* C16: when two directories under deps parse to packages with the same
\* (namespace, name) identity, get_unresolved_packages ends with an error: the
\* loading never completes with one of the two kept in the map.
C16_DuplicateIdentityFailsFast ==
    DuplicateIdentity => load_status # "loaded"

(***************************************************************************)
(* compose: the composition configuration built from the stub binaries.    *)
(***************************************************************************)
\* number of stub binaries given to compose
MaxStubs == 3

\* AnalysedExport of a component: an instance or a function, with its name
Export(kind, name) == [kind |-> kind, name |-> name]

\* the files that can be given as stub binaries: whether the file is a component
\* that can be read and analysed, and its top-level exports
StubFiles ==
    [path \in {"s1.wasm", "s2.wasm", "s3.wasm", "bad.wasm"} |->
        IF path = "s1.wasm"
        THEN [valid |-> TRUE, exports |-> <<Export("instance", "ns:t/stub-api")>>]
        ELSE IF path = "s2.wasm"
        THEN [valid |-> TRUE, exports |-> <<Export("instance", "ns:u/stub-x"),
                                            Export("instance", "ns:t/stub-api")>>]
        ELSE IF path = "s3.wasm"
        THEN [valid |-> TRUE, exports |-> <<Export("function", "ns:t/stub-api"),
                                            Export("instance", "ns:v/stub-y")>>]
        ELSE [valid |-> FALSE, exports |-> <<>>]]

ComposeInit ==
    /\ stub_wasm \in Arrangements(DOMAIN StubFiles, MaxStubs)
    /\ compose_pos = 0
    /\ dependencies = <<>>
    /\ compose_status = "reading"
    /\ ResolverIdle /\ MergeIdle /\ StripIdle /\ GenIdle
    /\ LoadIdle /\ BuildIdle

RECURSIVE InsertInstances(_, _, _)
\* `for export in stub_exports { if let AnalysedExport::Instance(instance) = export
\* { config.dependencies.insert(instance.name.clone(), Dependency { path }) } }`
InsertInstances(map, exports, path) ==
    IF exports = <<>> THEN map
    ELSE InsertInstances(IF Head(exports).kind = "instance"
                         THEN MapInsert(map, Head(exports).name, path)
                         ELSE map,
                         Tail(exports), path)

\* one iteration of `for stub_wasm in &args.stub_wasm`
ReadStub ==
    /\ compose_status = "reading"
    /\ compose_pos < Len(stub_wasm)
    /\ LET path == stub_wasm[compose_pos + 1]
       IN  IF StubFiles[path].valid
           THEN /\ dependencies' = InsertInstances(dependencies,
                                                   StubFiles[path].exports, path)
                /\ compose_pos' = compose_pos + 1
                /\ UNCHANGED compose_status
           ELSE \* fs::read, Component::from_bytes or get_top_level_exports fails
                /\ compose_status' = "err"
                /\ UNCHANGED <<dependencies, compose_pos>>
    /\ UNCHANGED <<stub_wasm, resVars, mergeVars, stripVars, genVars, loadVars,
                   buildVars>>

\* the configuration is complete: ComponentComposer::new(&args.source_wasm, &config)
ConfigBuilt ==
    /\ compose_status = "reading"
    /\ compose_pos = Len(stub_wasm)
    /\ compose_status' = "composing"
    /\ UNCHANGED <<stub_wasm, compose_pos, dependencies, resVars, mergeVars, stripVars,
                   genVars, loadVars, buildVars>>

\* `composer.compose()?` and the write of the result: the composer is an external
\* collaborator that succeeds or fails
Compose ==
    /\ compose_status = "composing"
    /\ compose_status' \in {"ok", "err"}
    /\ UNCHANGED <<stub_wasm, compose_pos, dependencies, resVars, mergeVars, stripVars,
                   genVars, loadVars, buildVars>>

ComposeNext == ReadStub \/ ConfigBuilt \/ Compose

SpecCompose == ComposeInit /\ [][ComposeNext]_vars

\* the instance names a stub file exports at top level
InstanceNames(path) ==
    {StubFiles[path].exports[i].name :
        i \in {k \in 1 .. Len(StubFiles[path].exports) :
                  StubFiles[path].exports[k].kind = "instance"}}

\* two different stub files given to compose export an instance of the same name
AmbiguousStubs ==
    \E i, j \in 1 .. Len(stub_wasm) :
        /\ stub_wasm[i] # stub_wasm[j]
        /\ StubFiles[stub_wasm[i]].valid /\ StubFiles[stub_wasm[j]].valid
        /\ InstanceNames(stub_wasm[i]) \cap InstanceNames(stub_wasm[j]) # {}

\* C11: when two different stub binaries given to compose export a top-level
\* instance of the same name, building the composition configuration fails: the
\* composer is never started with a mapping that kept one of the two paths.
C11_AmbiguousStubsRejected ==
    AmbiguousStubs => compose_status \notin {"composing", "ok"}

(***************************************************************************)
(* build: the stub is generated and compiled in a temporary directory,     *)
(* then the wasm file and the WIT directory are copied to the destination. *)
(* A directory is [exists, files]; a file that does not exist is <<>>.     *)
(***************************************************************************)
NoDir == [exists |-> FALSE, files |-> <<>>]

Dir(files) == [exists |-> TRUE, files |-> files]

NoTmp == [wit |-> <<>>, wasm |-> <<>>]

\* the WIT files generate_stub_wit and copy_wit_files put under <target_root>/wit
GeneratedWit(always_inline_types) ==
    [f \in {"_stub.wit", "deps/pkg.wit"} |->
        IF f = "_stub.wit"
        THEN (IF always_inline_types THEN <<"stub", "inline-root-types">>
              ELSE <<"stub", "import-root-types">>)
        ELSE <<"pkg">>]

BuildInit ==
    /\ build_args \in [always_inline_types : BOOLEAN]
    /\ build_tmp = NoTmp
    /\ build_pc = "generate"
    /\ build_status = "running"
    /\ out_wasm0 \in {<<>>, <<"old-wasm">>}
    /\ out_wit0 \in {NoDir, Dir(<<>>),
                     Dir([f \in {"_stub.wit"} |-> <<"old-stub">>]),
                     Dir([f \in {"other.wit"} |-> <<"other">>])}
    /\ out_wasm = out_wasm0
    /\ out_wit = out_wit0
    /\ ResolverIdle /\ MergeIdle /\ StripIdle /\ GenIdle
    /\ LoadIdle /\ ComposeIdle

\* a step of build returns an error through `?`
BuildFails ==
    /\ build_status' = "err"
    /\ build_pc' = "done"

\* TempDir::new up to generate_stub_source: everything is written under target_root
BuildGenerate ==
    /\ build_status = "running" /\ build_pc = "generate"
    /\ \/ /\ build_tmp' = [build_tmp EXCEPT
                               !.wit = GeneratedWit(build_args.always_inline_types)]
          /\ build_pc' = "compile"
          /\ UNCHANGED build_status
       \/ /\ BuildFails
          /\ UNCHANGED build_tmp
    /\ UNCHANGED <<build_args, out_wasm, out_wit, out_wasm0, out_wit0, resVars,
                   mergeVars, stripVars, genVars, loadVars, composeVars>>

\* compile(&canonical_target_root)
BuildCompile ==
    /\ build_status = "running" /\ build_pc = "compile"
    /\ \/ /\ build_tmp' = [build_tmp EXCEPT !.wasm = <<"new-wasm">>]
          /\ build_pc' = "mkdir_wasm"
          /\ UNCHANGED build_status
       \/ /\ BuildFails
          /\ UNCHANGED build_tmp
    /\ UNCHANGED <<build_args, out_wasm, out_wit, out_wasm0, out_wit0, resVars,
                   mergeVars, stripVars, genVars, loadVars, composeVars>>

\* fs::create_dir_all(parent) of args.dest_wasm
BuildCreateWasmParent ==
    /\ build_status = "running" /\ build_pc = "mkdir_wasm"
    /\ \/ /\ build_pc' = "copy_wasm"
          /\ UNCHANGED build_status
       \/ BuildFails
    /\ UNCHANGED <<build_args, build_tmp, out_wasm, out_wit, out_wasm0, out_wit0,
                   resVars, mergeVars, stripVars, genVars, loadVars, composeVars>>

\* fs::copy(wasm_path, &args.dest_wasm)
BuildCopyWasm ==
    /\ build_status = "running" /\ build_pc = "copy_wasm"
    /\ \/ /\ out_wasm' = build_tmp.wasm
          /\ build_pc' = "mkdir_wit"
          /\ UNCHANGED build_status
       \/ /\ BuildFails
          /\ UNCHANGED out_wasm
    /\ UNCHANGED <<build_args, build_tmp, out_wit, out_wasm0, out_wit0, resVars,
                   mergeVars, stripVars, genVars, loadVars, composeVars>>

\* fs::create_dir_all(&args.dest_wit_root)
BuildCreateWitRoot ==
    /\ build_status = "running" /\ build_pc = "mkdir_wit"
    /\ \/ /\ out_wit' = [out_wit EXCEPT !.exists = TRUE]
          /\ build_pc' = "copy_wit"
          /\ UNCHANGED build_status
       \/ /\ BuildFails
          /\ UNCHANGED out_wit
    /\ UNCHANGED <<build_args, build_tmp, out_wasm, out_wasm0, out_wit0, resVars,
                   mergeVars, stripVars, genVars, loadVars, composeVars>>

\* fs_extra::dir::copy(<target_root>/wit, &args.dest_wit_root, content_only, overwrite):
\* a copy that fails has copied none or some of the files
BuildCopyWit ==
    /\ build_status = "running" /\ build_pc = "copy_wit"
    /\ \/ /\ out_wit' = [out_wit EXCEPT !.files = build_tmp.wit @@ @]
          /\ build_pc' = "done"
          /\ build_status' = "ok"
       \/ /\ BuildFails
          /\ \E copied \in (SUBSET DOMAIN build_tmp.wit) \ {DOMAIN build_tmp.wit} :
                out_wit' = [out_wit EXCEPT
                               !.files = [f \in copied |-> build_tmp.wit[f]] @@ @]
    /\ UNCHANGED <<build_args, build_tmp, out_wasm, out_wasm0, out_wit0, resVars,
                   mergeVars, stripVars, genVars, loadVars, composeVars>>

BuildNext ==
    \/ BuildGenerate \/ BuildCompile \/ BuildCreateWasmParent
    \/ BuildCopyWasm \/ BuildCreateWitRoot \/ BuildCopyWit

SpecBuild == BuildInit /\ [][BuildNext]_vars

\* C20: on every path on which build returns an error, neither dest_wasm nor
\* dest_wit_root has been created or modified.
C20_BuildNoPartialOutput ==
    build_status = "err" => /\ out_wasm = out_wasm0
                            /\ out_wit = out_wit0

====
